---------------------------- MODULE Spec2Model ----------------------------
(***************************************************************************)
(* Birth Chart API (src/app.py): the /chart request pipeline               *)
(* geocode -> timezone -> UTC -> Julian Day -> houses -> planets -> output *)
(* and the pure position-formatting functions.                             *)
(*                                                                         *)
(* Angles are floating-point numbers in miniature: an integer counts units *)
(* of 1/Unit degree (Unit = 60 * SubMin, so one arcminute is SubMin units) *)
(* and a float keeps SigBits significant bits of it, so that near 360      *)
(* degrees the floats are two units apart while near 0 they are one unit   *)
(* apart, as the doubles of the program are 5.7e-14 apart near 360 and     *)
(* far closer near 0.  Every arithmetic result is rounded to a float, to   *)
(* the nearest, ties to the even significand.                              *)
(***************************************************************************)
EXTENDS Integers, Sequences, FiniteSets, TLC

VARIABLES config, lib, req, fmt

vars == <<config, lib, req, fmt>>

(***************************************************************************)
(* Bounds of the model.                                                    *)
(***************************************************************************)
\* subdivisions of one arcminute in the fixed-point grid
SubMin == 4
\* number of ephemeris tables the ephemeris library may hold
NumTables == 2
\* significant bits of a float
SigBits == 16

Unit == 60 * SubMin
Turn == 360 * Unit
SignWidth == 30 * Unit

\* the concurrent requests in flight
Reqs == {"r1", "r2"}

(***************************************************************************)
(* Module-level tables (src/app.py lines 29-55).                           *)
(***************************************************************************)
HOUSE_SYSTEM == "P"
FLAGS == {"FLG_SWIEPH", "FLG_SPEED"}
NODE_BODY == 10

SIGNS == <<"Aries", "Taurus", "Gemini", "Cancer", "Leo", "Virgo",
           "Libra", "Scorpio", "Sagittarius", "Capricorn", "Aquarius", "Pisces">>

PLANETS == << [name |-> "Sun",     body |-> 0],
              [name |-> "Moon",    body |-> 1],
              [name |-> "Mercury", body |-> 2],
              [name |-> "Venus",   body |-> 3],
              [name |-> "Mars",    body |-> 4],
              [name |-> "Jupiter", body |-> 5],
              [name |-> "Saturn",  body |-> 6],
              [name |-> "Uranus",  body |-> 7],
              [name |-> "Neptune", body |-> 8],
              [name |-> "Pluto",   body |-> 9],
              [name |-> "Node(M)", body |-> NODE_BODY] >>

\* the process-wide state after the module body has run: the second
\* swe.set_ephe_path call (line 30) overrides the first (line 16)
StartupConfig ==
    [ ephe_path    |-> "./ephe",
      house_system |-> HOUSE_SYSTEM,
      flags        |-> FLAGS,
      signs        |-> SIGNS,
      planets      |-> PLANETS,
      tf           |-> "TimezoneFinder",
      geolocator   |-> "Nominatim" ]

(***************************************************************************)
(* Position formatter (src/app.py lines 69-91).                            *)
(***************************************************************************)
\* round(n / d), ties to the even integer (Python 3 round, and the
\* rounding of a float operation)
RoundHalfEven(n, d) ==
    LET q == n \div d
        r == n % d
    IN  IF 2 * r < d THEN q
        ELSE IF 2 * r > d THEN q + 1
        ELSE IF q % 2 = 0 THEN q ELSE q + 1

\* the spacing of the floats around a >= 0
RECURSIVE UlpFrom(_, _)
UlpFrom(a, u) == IF a < (2 ^ SigBits) * u THEN u ELSE UlpFrom(a, 2 * u)

\* the float nearest to n: the result of a floating-point operation whose
\* exact result is n
fl(n) ==
    LET a == IF n < 0 THEN -n ELSE n
        u == UlpFrom(a, 1)
        m == RoundHalfEven(a, u) * u
    IN  IF n < 0 THEN -m ELSE m

\* the float at or next below n >= 0
FloatBelow(n) == LET u == UlpFrom(n, 1) IN (n \div u) * u

\* Python's float %: fmod, which is exact and has the sign of the dividend,
\* then the divisor is added to a negative remainder, which rounds
normalize_deg(deg) ==
    LET r == IF deg < 0 THEN -((-deg) % Turn) ELSE deg % Turn
    IN  IF r < 0 THEN fl(r + Turn) ELSE r

\* SIGNS[sign_index] raises IndexError when sign_index is 12
zodiac_sign_and_pos(ecl_lon_deg) ==
    LET lon        == normalize_deg(ecl_lon_deg)
        sign_index == lon \div SignWidth
    IN  IF sign_index >= Len(SIGNS)
        THEN [ sign |-> "IndexError", pos |-> 0 ]
        ELSE [ sign |-> SIGNS[sign_index + 1],
               pos  |-> fl(lon - sign_index * SignWidth) ]

\* int(x) truncates toward zero; n counts units of 1/Unit
IntTrunc(n) == IF n >= 0 THEN n \div Unit ELSE -((-n) \div Unit)

\* variant: the rollover without the clamp at the sign boundary
round_to_arcminute_no_clamp(pos_in_sign) ==
    LET d == IntTrunc(pos_in_sign)
        m == RoundHalfEven(fl(fl(pos_in_sign - d * Unit) * 60), Unit)
    IN  IF m = 60 THEN <<d + 1, 0>> ELSE <<d, m>>

round_to_arcminute(pos_in_sign) ==
    LET d == IntTrunc(pos_in_sign)
        m == RoundHalfEven(fl(fl(pos_in_sign - d * Unit) * 60), Unit)
    IN  IF m = 60
        THEN IF d + 1 = 30 THEN <<29, 59>> ELSE <<d + 1, 0>>
        ELSE <<d, m>>

\* variant: the lower clamp only
house_number_no_upper_clamp(hpos) ==
    LET h == hpos \div Unit
    IN  IF h < 1 THEN 1 ELSE h

\* lines 188-193: floor of the raw house position, clamped into 1..12
house_number(hpos) ==
    LET h  == hpos \div Unit
        h1 == IF h < 1 THEN 1 ELSE h
    IN  IF h1 > 12 THEN 12 ELSE h1


(***************************************************************************)
(* Request validation (src/app.py lines 57-66) and the civil calendar.     *)
(***************************************************************************)
\* location is the sequence of the characters of the location string
ChartRequestValid(input) ==
    /\ input.year >= 1   /\ input.year <= 3000
    /\ input.month >= 1  /\ input.month <= 12
    /\ input.day >= 1    /\ input.day <= 31
    /\ input.hour >= 0   /\ input.hour <= 23
    /\ input.minute >= 0 /\ input.minute <= 59
    /\ Len(input.location) >= 2

IsLeap(y) == (y % 4 = 0 /\ y % 100 # 0) \/ y % 400 = 0

DaysInMonth(y, m) ==
    IF m = 2 THEN (IF IsLeap(y) THEN 29 ELSE 28)
    ELSE IF m \in {4, 6, 9, 11} THEN 30 ELSE 31

\* datetime(year, month, day, hour, minute) raises ValueError otherwise
DateConstructible(input) ==
    /\ input.month \in 1..12
    /\ input.day >= 1 /\ input.day <= DaysInMonth(input.year, input.month)

\* Julian Day Number of a Gregorian calendar date (at noon)
JulianDayNumber(y, m, d) ==
    LET a  == (14 - m) \div 12
        y1 == y + 4800 - a
        m1 == m + 12 * a - 3
    IN  d + (153 * m1 + 2) \div 5 + 365 * y1 + y1 \div 4 - y1 \div 100
          + y1 \div 400 - 32045

\* the calendar date `shift` days (-1, 0 or 1) from (y, m, d)
ShiftDate(y, m, d, shift) ==
    IF shift = 0 THEN [year |-> y, month |-> m, day |-> d]
    ELSE IF shift < 0
    THEN IF d > 1 THEN [year |-> y, month |-> m, day |-> d - 1]
         ELSE IF m > 1
         THEN [year |-> y, month |-> m - 1, day |-> DaysInMonth(y, m - 1)]
         ELSE [year |-> y - 1, month |-> 12, day |-> 31]
    ELSE IF d < DaysInMonth(y, m) THEN [year |-> y, month |-> m, day |-> d + 1]
         ELSE IF m < 12 THEN [year |-> y, month |-> m + 1, day |-> 1]
         ELSE [year |-> y + 1, month |-> 1, day |-> 1]

\* UTC offset, in minutes, the zone database gives a zone at a civil time
UtcOffset(tz_name, input) ==
    IF tz_name = "Europe/London"
    THEN (IF input.month \in 4..10 THEN 60 ELSE 0)
    ELSE -300

\* lines 159-160: attach the zone, convert to UTC
local_to_utc(input, tz_name) ==
    LET mins   == input.hour * 60 + input.minute - UtcOffset(tz_name, input)
        shift  == mins \div 1440
        ofday  == mins % 1440
        date   == ShiftDate(input.year, input.month, input.day, shift)
    IN  [ year |-> date.year, month |-> date.month, day |-> date.day,
          hour |-> ofday \div 60, minute |-> ofday % 60 ]

\* lines 164-166: swe.julday; the day count is kept as whole days (at noon)
\* plus minutes from noon, the two summands of the floating-point value
julian_day_ut(utc_dt) ==
    [ day    |-> JulianDayNumber(utc_dt.year, utc_dt.month, utc_dt.day),
      minute |-> (utc_dt.hour - 12) * 60 + utc_dt.minute ]

(***************************************************************************)
(* The ephemeris library: its answers are a function of the data table it  *)
(* holds (lib.table) and of the arguments of the call.                     *)
(***************************************************************************)
\* swe.calc_ut raises when the data for a body is not available
calc_ut_raises(k, body) == k % 2 = 0 /\ body = 9

\* swe.calc_ut(jd_ut, body, FLAGS)[0][0]: ecliptic longitude
calc_ut_lon(k, jd, body) ==
    FloatBelow(((body + 1) * (37 * Unit + 11) * k + jd.day * 7 + jd.minute
                  + SignWidth - 1) % Turn)

\* swe.calc_ut(jd_ut, body, FLAGS)[0][3]: longitude speed
calc_ut_speed(k, jd, body) == ((body + k + jd.day) % 3) - 1

\* swe.calc_ut(jd_ut, swe.ECL_NUT, FLAGS)[0][0]: obliquity of the ecliptic
calc_ut_obliquity(k, jd) == (2344 * Unit) \div 100

\* swe.house_pos(armc, lat, obliq, [ecl_lon, 0.0], HOUSE_SYSTEM): the raw
\* house position, over the whole theoretical range 0..14
house_pos(armc, lat, obliq, ecl_lon) ==
    (((ecl_lon - armc) % Turn) * 14) \div 360 

AscOf(k, jd, lat, lon) ==
    FloatBelow((k * 1000 + lat * Unit + lon * 3 + jd.minute) % Turn)

\* the cusp the library computes for house i (1..12)
CuspOf(k, jd, lat, lon, i) ==
    FloatBelow((AscOf(k, jd, lat, lon) + (i - 1) * SignWidth + i * k * SubMin)
                 % Turn)

\* swe.houses_ex(jd_ut, lat, lon, HOUSE_SYSTEM): (houses, ascmc); houses has
\* 12 cusps, or 13 values with an unused first one, by the binding in use;
\* ascmc carries the obliquity at index 9 only when it has more than 9 values
houses_ex(l, jd, lat, lon) ==
    LET cusps == [i \in 1..12 |-> CuspOf(l.table, jd, lat, lon, i)]
        asc   == AscOf(l.table, jd, lat, lon)
        mc    == FloatBelow((asc + 270 * Unit) % Turn)
        armc  == FloatBelow((mc + l.table * Unit) % Turn)
    IN  [ houses |-> IF l.cusps = 12 THEN cusps ELSE <<0>> \o cusps,
          ascmc  |-> [i \in 1..l.ascmc |->
                        IF i = 1 THEN asc
                        ELSE IF i = 2 THEN mc
                        ELSE IF i = 3 THEN armc
                        ELSE IF i = 10 THEN calc_ut_obliquity(l.table, jd)
                        ELSE 0] ]

\* the bindings of the library: pyswisseph (12 cusps, 10 angle values) and
\* a binding that returns 13 cusp values and the 8 documented angle values
Bindings == { [cusps |-> 12, ascmc |-> 10], [cusps |-> 13, ascmc |-> 8] }

Libraries ==
    { [cusps |-> b.cusps, ascmc |-> b.ascmc, table |-> k] :
        b \in Bindings, k \in 1..NumTables }

(***************************************************************************)
(* Answers of the external services.                                       *)
(***************************************************************************)
\* geolocator.geocode(query, addressdetails=True): a match, None, or raises
PrimaryAnswers ==
    { [kind |-> "match", lat |-> 51, lon |-> 0],
      [kind |-> "none",  lat |-> 0,  lon |-> 0],
      [kind |-> "raise", lat |-> 0,  lon |-> 0] }

NoEntry == [has_latitude |-> FALSE, latitude |-> 0, longitude |-> 0]

\* what requests.get on the Open-Meteo search endpoint can come back with:
\*   net     "ok" | "error"            (the call raised: timeout, DNS, ...)
\*   http    the status code
\*   body    "garbled" (not JSON) | "array" (JSON, not an object) | "object"
\*   key     "missing" | "null" | "present"   (the "results" member)
\*   results the list under "results"
FallbackResponses ==
    { [net |-> "error", http |-> 0,   body |-> "garbled", key |-> "missing", results |-> <<>>],
      [net |-> "ok",    http |-> 500, body |-> "object",  key |-> "missing", results |-> <<>>],
      [net |-> "ok",    http |-> 200, body |-> "garbled", key |-> "missing", results |-> <<>>],
      [net |-> "ok",    http |-> 200, body |-> "array",   key |-> "missing", results |-> <<>>],
      [net |-> "ok",    http |-> 200, body |-> "object",  key |-> "missing", results |-> <<>>],
      [net |-> "ok",    http |-> 200, body |-> "object",  key |-> "null",    results |-> <<>>],
      [net |-> "ok",    http |-> 200, body |-> "object",  key |-> "present", results |-> <<>>],
      [net |-> "ok",    http |-> 200, body |-> "object",  key |-> "present", results |-> <<NoEntry>>],
      [net |-> "ok",    http |-> 200, body |-> "object",  key |-> "present",
       results |-> << [has_latitude |-> TRUE, latitude |-> 38, longitude |-> -82] >>] }

NotCalled ==
    [net |-> "uncalled", http |-> 0, body |-> "", key |-> "", results |-> <<>>]

\* tf.timezone_at / tf.closest_timezone_at: a zone name, "", None, or raises
ExactAnswers   == {"Europe/London", "", "None", "raise"}
ClosestAnswers == {"America/New_York", "", "None", "raise"}

\* ZoneInfo(tz_name): loads, loads on the second attempt (after importing
\* tzdata), or raises on both
ZoneInfoOutcomes == {"ok", "ok_after_tzdata", "raise"}

ChartInputs ==
    { [year |-> 1990, month |-> 6, day |-> 15, hour |-> 12, minute |-> 0,
       location |-> <<"U", "K">>],
      [year |-> 1990, month |-> 2, day |-> 30, hour |-> 0, minute |-> 30,
       location |-> <<"W", "V">>],
      [year |-> 1990, month |-> 6, day |-> 15, hour |-> 12, minute |-> 0,
       location |-> <<"X">>] }

(***************************************************************************)
(* Geocoder (src/app.py lines 94-137).                                     *)
(***************************************************************************)
\* variant: the primary's match is not returned
after_primary_always_fallback(ans) == "fallback"

\* lines 96-101: where geocode_location goes after the primary's answer
after_primary(ans) ==
    IF ans.kind = "match" THEN "return" ELSE "fallback"

\* lines 105-129: the body of the second try block
fallback_try(resp) ==
    IF resp.net = "error" THEN [exc |-> "RequestException"]
    ELSE IF resp.http >= 400 THEN [exc |-> "HTTPError"]
    ELSE IF resp.body = "garbled" THEN [exc |-> "JSONDecodeError"]
    ELSE IF resp.body # "object" THEN [exc |-> "AttributeError"]
    ELSE LET results == IF resp.key = "present" THEN resp.results ELSE <<>>
         IN  IF results = <<>>
             THEN [exc |-> "HTTPException", status_code |-> 404,
                   detail |-> "Location not found. Try 'City, State, Country'."]
             ELSE IF ~results[1].has_latitude THEN [exc |-> "KeyError"]
             ELSE [exc |-> "", lat |-> results[1].latitude,
                   lon |-> results[1].longitude]

\* variant: the generic except clause first, so it also catches the 404
fallback_except_generic_first(e) ==
    [exc |-> "HTTPException", status_code |-> 502, detail |-> "Geocoding error"]

\* lines 131-137: the except clauses, in their order
fallback_except(e) ==
    IF e.exc = "HTTPException" THEN e
    ELSE [exc |-> "HTTPException", status_code |-> 502,
          detail |-> "Geocoding error"]

fallback_call(resp) ==
    LET e == fallback_try(resp)
    IN  IF e.exc = "" THEN e ELSE fallback_except(e)

(***************************************************************************)
(* Timezone resolver (src/app.py lines 142-148).                           *)
(***************************************************************************)
\* variant: `tz_name is None`
tz_missing_none_only(tz_name) == tz_name = "None"

\* `not tz_name`
tz_missing(tz_name) == tz_name \in {"", "None"}

(***************************************************************************)
(* House of a longitude (src/app.py lines 169-193).                        *)
(***************************************************************************)
house_for_longitude(k, jd, lat, ecl_lon, ascmc) ==
    LET obliq == IF Len(ascmc) > 9 THEN ascmc[10] ELSE calc_ut_obliquity(k, jd)
        armc  == ascmc[3]
    IN  house_number(house_pos(armc, lat, obliq, ecl_lon))

(***************************************************************************)
(* /chart, one body of the loop (src/app.py lines 218-236).                *)
(***************************************************************************)
\* variant: a stationary body counted as retrograde
is_retrograde_or_stationary(speed_lon) == speed_lon <= 0

\* line 221
is_retrograde(speed_lon) == speed_lon < 0

planet_entry(k, jd, lat, body, ascmc) ==
    LET ecl_lon == normalize_deg(calc_ut_lon(k, jd, body))
        zp      == zodiac_sign_and_pos(ecl_lon)
        dm      == round_to_arcminute(zp.pos)
    IN  [ sign       |-> zp.sign,
          deg        |-> dm[1],
          min        |-> dm[2],
          lon_deg    |-> ecl_lon,
          retrograde |-> is_retrograde(calc_ut_speed(k, jd, body)),
          house      |-> house_for_longitude(k, jd, lat, ecl_lon, ascmc) ]

\* lines 239-243
angle_entry(a) ==
    LET zp == zodiac_sign_and_pos(a)
        dm == round_to_arcminute(zp.pos)
    IN  [sign |-> zp.sign, deg |-> dm[1], min |-> dm[2], lon_deg |-> normalize_deg(a)]

\* variant: the 13-value list taken whole
cusp_list_keeps_index0(houses) == houses

\* lines 249-255
cusp_list(houses) ==
    IF Len(houses) = 12 THEN houses ELSE SubSeq(houses, 2, Len(houses))

\* lines 257-267
cusps_formatted(houses) ==
    LET cl == cusp_list(houses)
    IN  [ i \in 1..Len(cl) |->
            LET cusp_lon == normalize_deg(cl[i])
                zp       == zodiac_sign_and_pos(cusp_lon)
                dm       == round_to_arcminute(zp.pos)
            IN  [house |-> i, sign |-> zp.sign, deg |-> dm[1], min |-> dm[2],
                 lon_deg |-> cusp_lon] ]


(***************************************************************************)
(* State.                                                                  *)
(*   config  the process-wide settings written by the module body          *)
(*   lib     the ephemeris library the process runs with                   *)
(*   req     the requests in flight, each at its own place in its handler  *)
(*   fmt     one call of a position-formatting function                    *)
(***************************************************************************)
NoInput ==
    [year |-> 0, month |-> 0, day |-> 0, hour |-> 0, minute |-> 0, location |-> <<>>]

IdleReq ==
    [ pc             |-> "idle",
      route          |-> "",
      input          |-> NoInput,
      stages         |-> <<>>,
      failed_at      |-> "",
      primary        |-> [kind |-> "uncalled", lat |-> 0, lon |-> 0],
      primary_calls  |-> 0,
      fallback       |-> NotCalled,
      fallback_calls |-> 0,
      lat            |-> 0,
      lon            |-> 0,
      raw            |-> "",
      tz_exact       |-> "uncalled",
      tz_closest     |-> "uncalled",
      tz_name        |-> "",
      zoneinfo       |-> "uncalled",
      utc_dt         |-> [year |-> 0, month |-> 0, day |-> 0, hour |-> 0, minute |-> 0],
      jd_ut          |-> [day |-> 0, minute |-> 0],
      houses_call    |-> "uncalled",
      houses         |-> <<>>,
      ascmc          |-> <<>>,
      i              |-> 0,
      planets_out    |-> <<>>,
      angles         |-> <<>>,
      cusps_out      |-> <<>>,
      status         |-> 0,
      detail         |-> "",
      doc            |-> <<>> ]

IdleFmt == [kind |-> "none", arg |-> 0, pc |-> "idle", out |-> <<>>]

Init ==
    /\ config = StartupConfig
    /\ lib \in Libraries
    /\ req = [r \in Reqs |-> IdleReq]
    /\ fmt = IdleFmt

\* variant: the error is noted and the handler goes on where it was
Fail_keeps_running(rq, stage, status_code, detail) ==
    [rq EXCEPT !.failed_at = stage, !.status = status_code, !.detail = detail]

\* an HTTPException, or an exception the framework turns into a 500
Fail(rq, stage, status_code, detail) ==
    [rq EXCEPT !.pc = "failed", !.failed_at = stage,
               !.status = status_code, !.detail = detail]

Enter(rq, stage) == [rq EXCEPT !.stages = Append(@, stage)]

\* no handler writes the process-wide state
ReadOnly == UNCHANGED <<config, lib, fmt>>

(***************************************************************************)
(* The handlers.                                                           *)
(***************************************************************************)
\* a request arrives; pydantic validates the body of a POST /chart
Receive(r) ==
    /\ req[r].pc = "idle"
    /\ \/ req' = [req EXCEPT ![r] = [@ EXCEPT !.pc = "health", !.route = "/"]]
       \/ \E input \in ChartInputs :
            LET rq == [req[r] EXCEPT !.route = "/chart", !.input = input]
            IN  req' = [req EXCEPT ![r] =
                   IF ChartRequestValid(input)
                   THEN [rq EXCEPT !.pc = "geocode"]
                   ELSE Fail(rq, "validation", 422, "validation error")]
    /\ ReadOnly

\* GET /  (lines 25-27)
health(r) ==
    /\ req[r].pc = "health"
    /\ req' = [req EXCEPT ![r] =
                 [@ EXCEPT !.pc = "done", !.status = 200,
                           !.doc = <<[status |-> "ok"]>>]]
    /\ ReadOnly

\* geocode_location, first try block (lines 96-101)
GeocodePrimary(r) ==
    /\ req[r].pc = "geocode"
    /\ \E ans \in PrimaryAnswers :
         LET rq == [Enter(req[r], "geocode") EXCEPT
                       !.primary = ans, !.primary_calls = @ + 1]
         IN  req' = [req EXCEPT ![r] =
                IF after_primary(ans) = "return"
                THEN [rq EXCEPT !.pc = "timezone", !.lat = ans.lat,
                                !.lon = ans.lon, !.raw = "nominatim"]
                ELSE [rq EXCEPT !.pc = "geocode_fallback"]]
    /\ ReadOnly

\* geocode_location, second try block (lines 104-137)
GeocodeFallback(r) ==
    /\ req[r].pc = "geocode_fallback"
    /\ \E resp \in FallbackResponses :
         LET rq == [req[r] EXCEPT !.fallback = resp, !.fallback_calls = @ + 1]
             e  == fallback_call(resp)
         IN  req' = [req EXCEPT ![r] =
                IF e.exc = ""
                THEN [rq EXCEPT !.pc = "timezone", !.lat = e.lat, !.lon = e.lon,
                                !.raw = "open-meteo"]
                ELSE Fail(rq, "geocode", e.status_code, e.detail)]
    /\ ReadOnly

\* resolve_timezone_name, line 143
TimezoneExact(r) ==
    /\ req[r].pc = "timezone"
    /\ \E a \in ExactAnswers :
         LET rq == [Enter(req[r], "timezone") EXCEPT !.tz_exact = a]
         IN  req' = [req EXCEPT ![r] =
                IF a = "raise"
                THEN Fail(rq, "timezone", 500, "Internal Server Error")
                ELSE IF tz_missing(a)
                THEN [rq EXCEPT !.pc = "timezone_closest"]
                ELSE [rq EXCEPT !.pc = "to_utc", !.tz_name = a]]
    /\ ReadOnly

\* resolve_timezone_name, lines 144-148
TimezoneClosest(r) ==
    /\ req[r].pc = "timezone_closest"
    /\ \E a \in ClosestAnswers :
         LET rq == [req[r] EXCEPT !.tz_closest = a]
         IN  req' = [req EXCEPT ![r] =
                IF a = "raise"
                THEN Fail(rq, "timezone", 500, "Internal Server Error")
                ELSE IF tz_missing(a)
                THEN Fail(rq, "timezone", 422,
                          "Could not resolve timezone for this location.")
                ELSE [rq EXCEPT !.pc = "to_utc", !.tz_name = a]]
    /\ ReadOnly

\* local_to_utc (lines 151-161)
LocalToUtc(r) ==
    /\ req[r].pc = "to_utc"
    /\ \E zi \in ZoneInfoOutcomes :
         LET rq == [Enter(req[r], "local_to_utc") EXCEPT
                       !.zoneinfo = IF zi = "raise" THEN "raise" ELSE "loaded"]
         IN  req' = [req EXCEPT ![r] =
                IF zi = "raise" \/ ~DateConstructible(rq.input)
                THEN Fail(rq, "local_to_utc", 500, "Internal Server Error")
                ELSE [rq EXCEPT !.pc = "julian_day",
                                !.utc_dt = local_to_utc(rq.input, rq.tz_name)]]
    /\ ReadOnly

\* julian_day_ut (line 208)
JulianDay(r) ==
    /\ req[r].pc = "julian_day"
    /\ req' = [req EXCEPT ![r] =
                 [Enter(@, "julian_day") EXCEPT
                     !.pc = "houses", !.jd_ut = julian_day_ut(req[r].utc_dt)]]
    /\ ReadOnly

\* the request's part of the houses step (lines 211-213); swe.houses_ex may
\* raise (Placidus has no solution at some latitudes)
HousesStep(r) ==
    /\ req[r].pc = "houses"
    /\ \E raised \in BOOLEAN :
         LET rq == [Enter(req[r], "houses") EXCEPT
                       !.houses_call = IF raised THEN "raise" ELSE "returned"]
             h  == houses_ex(lib, rq.jd_ut, rq.lat, rq.lon)
         IN  req' = [req EXCEPT ![r] =
                IF raised
                THEN Fail(rq, "houses", 500, "Internal Server Error")
                ELSE [rq EXCEPT !.pc = "planets", !.i = 1,
                                !.houses = h.houses, !.ascmc = h.ascmc]]

\* variant: the handler sets the ephemeris path again, to EPHE_PATH
Houses_sets_ephe_path(r) ==
    /\ HousesStep(r)
    /\ config' = [config EXCEPT !.ephe_path = "BASE_DIR/ephe"]
    /\ UNCHANGED <<lib, fmt>>

Houses(r) == HousesStep(r) /\ ReadOnly

\* one turn of the loop over PLANETS (lines 217-236)
Planet(r) ==
    /\ req[r].pc = "planets"
    /\ LET rq0  == req[r]
           rq   == IF rq0.i = 1 THEN Enter(rq0, "planets") ELSE rq0
           p    == PLANETS[rq.i]
           e    == planet_entry(lib.table, rq.jd_ut, rq.lat, p.body, rq.ascmc)
       IN  req' = [req EXCEPT ![r] =
              IF calc_ut_raises(lib.table, p.body) \/ e.sign = "IndexError"
              THEN Fail(rq, "planets", 500, "Internal Server Error")
              ELSE [rq EXCEPT
                      !.planets_out = (p.name :> e) @@ @,
                      !.i  = @ + 1,
                      !.pc = IF rq.i = Len(PLANETS) THEN "angles" ELSE "planets"]]
    /\ ReadOnly

\* lines 238-243
Angles(r) ==
    /\ req[r].pc = "angles"
    /\ LET rq  == Enter(req[r], "output")
           asc == angle_entry(rq.ascmc[1])
           mc  == angle_entry(rq.ascmc[2])
       IN  req' = [req EXCEPT ![r] =
              IF asc.sign = "IndexError" \/ mc.sign = "IndexError"
              THEN Fail(rq, "output", 500, "Internal Server Error")
              ELSE [rq EXCEPT !.pc = "cusps",
                              !.angles = [ASC |-> asc, MC |-> mc]]]
    /\ ReadOnly

\* lines 245-267
Cusps(r) ==
    /\ req[r].pc = "cusps"
    /\ LET rq == req[r]
           co == cusps_formatted(rq.houses)
       IN  req' = [req EXCEPT ![r] =
              IF \E n \in 1..Len(co) : co[n].sign = "IndexError"
              THEN Fail(rq, "output", 500, "Internal Server Error")
              ELSE [rq EXCEPT !.pc = "assemble", !.cusps_out = co]]
    /\ ReadOnly

\* lines 269-294
Assemble(r) ==
    /\ req[r].pc = "assemble"
    /\ LET rq == req[r]
       IN  req' = [req EXCEPT ![r] =
              [rq EXCEPT
                 !.pc = "done",
                 !.status = 200,
                 !.doc = << [ settings_locked |->
                                [zodiac |-> "tropical", houses |-> "placidus",
                                 node |-> "mean", ephemeris |-> "swiss_ephemeris"],
                              input |->
                                [location_query |-> rq.input.location,
                                 geocoded |-> [lat |-> rq.lat, lon |-> rq.lon,
                                               raw |-> rq.raw],
                                 timezone |-> rq.tz_name,
                                 utc_datetime |-> rq.utc_dt,
                                 julian_day_ut |-> rq.jd_ut],
                              angles |-> rq.angles,
                              house_cusps |-> rq.cusps_out,
                              planets |-> rq.planets_out ] >>]]
    /\ ReadOnly

Next ==
    \E r \in Reqs :
        \/ Receive(r)
        \/ health(r)
        \/ GeocodePrimary(r)
        \/ GeocodeFallback(r)
        \/ TimezoneExact(r)
        \/ TimezoneClosest(r)
        \/ LocalToUtc(r)
        \/ JulianDay(r)
        \/ Houses(r)
        \/ Planet(r)
        \/ Angles(r)
        \/ Cusps(r)
        \/ Assemble(r)

Spec == Init /\ [][Next]_vars

(***************************************************************************)
(* The position-formatting functions on their own: one call, its argument  *)
(* drawn from the whole grid.                                              *)
(***************************************************************************)
FmtCall(kind, arg) == [kind |-> kind, arg |-> arg, pc |-> "call", out |-> <<>>]

FmtInit ==
    /\ config = StartupConfig
    /\ lib = [cusps |-> 12, ascmc |-> 10, table |-> 1]
    /\ req = [r \in Reqs |-> IdleReq]
    /\ \/ \E a \in (-Turn)..(Turn + Unit) :
             fl(a) = a /\ fmt = FmtCall("zodiac", a)
       \/ \E a \in (-Unit)..(SignWidth + Unit) :
             fl(a) = a /\ fmt = FmtCall("round", a)
       \/ \E a \in (-2 * Unit)..(15 * Unit) :
             fl(a) = a /\ fmt = FmtCall("house", a)

CallZodiac ==
    /\ fmt.pc = "call" /\ fmt.kind = "zodiac"
    /\ fmt' = [fmt EXCEPT !.pc = "done", !.out = zodiac_sign_and_pos(fmt.arg)]
    /\ UNCHANGED <<config, lib, req>>

CallRound ==
    /\ fmt.pc = "call" /\ fmt.kind = "round"
    /\ fmt' = [fmt EXCEPT !.pc = "done", !.out = round_to_arcminute(fmt.arg)]
    /\ UNCHANGED <<config, lib, req>>

CallHouse ==
    /\ fmt.pc = "call" /\ fmt.kind = "house"
    /\ fmt' = [fmt EXCEPT !.pc = "done", !.out = house_number(fmt.arg)]
    /\ UNCHANGED <<config, lib, req>>

FmtNext == CallZodiac \/ CallRound \/ CallHouse

FmtSpec == FmtInit /\ [][FmtNext]_vars


(***************************************************************************)
(* Properties.                                                             *)
(***************************************************************************)
Nothing == {"", "None"}

StageOrder ==
    <<"geocode", "timezone", "local_to_utc", "julian_day", "houses",
      "planets", "output">>

IsPrefix(s, t) == Len(s) <= Len(t) /\ \A n \in 1..Len(s) : s[n] = t[n]

ChartDone(r) == req[r].route = "/chart" /\ req[r].pc = "done"

\* the fallback answered, and its result list is empty or missing
FallbackEmpty(resp) ==
    /\ resp.net = "ok" /\ resp.http = 200 /\ resp.body = "object"
    /\ (resp.key \in {"missing", "null"} \/ Len(resp.results) = 0)

\* the fallback answered with a usable first result
FallbackGood(resp) ==
    /\ resp.net = "ok" /\ resp.http = 200 /\ resp.body = "object"
    /\ resp.key = "present" /\ Len(resp.results) > 0
    /\ resp.results[1].has_latitude

\* C1: geocode_location fails only with 404 or 502, and the fallback's
\* answer alone decides which: 404 (with the 'City, State, Country' detail)
\* exactly when the fallback answered with an empty or missing result list,
\* 502 exactly when the fallback call or the reading of its body failed;
\* whatever the primary did (no match or an exception) is not surfaced.
C1_GeocodeFailsBy404Or502 ==
    \A r \in Reqs :
        LET q == req[r]
        IN  /\ q.fallback_calls = 1 =>
                 (q.failed_at = "geocode" <=> ~FallbackGood(q.fallback))
            /\ q.failed_at = "geocode" =>
                 /\ q.pc = "failed"
                 /\ q.fallback_calls = 1
                 /\ q.primary.kind \in {"none", "raise"}
                 /\ q.status \in {404, 502}
                 /\ q.status = 404 <=> FallbackEmpty(q.fallback)
                 /\ q.status = 502 <=>
                      (~FallbackEmpty(q.fallback) /\ ~FallbackGood(q.fallback))
                 /\ q.status = 404 =>
                      q.detail = "Location not found. Try 'City, State, Country'."

\* a request whose primary raised and whose fallback found nothing: 404
C1_Witness ==
    \E r \in Reqs :
        /\ req[r].failed_at = "geocode" /\ req[r].status = 404
        /\ req[r].primary.kind = "raise"
        /\ req[r].fallback.key = "present"

\* C2: the primary is called first and once; the fallback is called, once,
\* exactly when the primary raised or found nothing; a primary match is
\* what geocode_location returns.
C2_PrimaryThenFallback ==
    \A r \in Reqs :
        LET q == req[r]
            geocoded == q.primary_calls = 1 /\ q.pc # "geocode_fallback"
        IN  /\ q.primary_calls <= 1 /\ q.fallback_calls <= 1
            /\ q.fallback_calls = 1 =>
                 q.primary_calls = 1 /\ q.primary.kind \in {"none", "raise"}
            /\ q.primary.kind = "match" =>
                 /\ q.fallback_calls = 0 /\ q.fallback = NotCalled
                 /\ q.lat = q.primary.lat /\ q.lon = q.primary.lon
                 /\ q.raw = "nominatim"
                 /\ q.failed_at # "geocode"
            /\ (geocoded /\ q.primary.kind \in {"none", "raise"}) =>
                 q.fallback_calls = 1
            /\ q.primary_calls = 0 => q.stages = <<>>

\* one request served by the primary, another by the fallback after the
\* primary raised
C2_Witness ==
    \E r1, r2 \in Reqs :
        /\ req[r1].primary.kind = "match" /\ req[r1].pc = "timezone"
        /\ req[r2].primary.kind = "raise" /\ req[r2].fallback_calls = 1
        /\ req[r2].pc = "timezone" /\ req[r2].raw = "open-meteo"

\* C3: the stages of /chart run in the fixed order; a failure ends the
\* request at the stage that failed, with an error status and no chart
\* document, and a chart document exists only after every stage has run.
C3_StagesInOrderAbortOnFailure ==
    \A r \in Reqs :
        LET q == req[r]
        IN  q.route = "/chart" =>
              /\ IsPrefix(q.stages, StageOrder)
              /\ q.status # 0 => q.pc \in {"done", "failed"}
              /\ q.failed_at # "" => q.pc = "failed"
              /\ q.pc = "failed" =>
                   /\ Len(q.doc) = 0
                   /\ q.status \in {404, 422, 500, 502}
                   /\ IF q.failed_at = "validation"
                      THEN q.stages = <<>>
                      ELSE /\ Len(q.stages) > 0
                           /\ q.stages[Len(q.stages)] = q.failed_at
              /\ q.pc = "done" =>
                   q.stages = StageOrder /\ q.status = 200 /\ Len(q.doc) = 1
              /\ Len(q.doc) > 0 => q.pc = "done"

\* a request that failed in the planets loop after some bodies were done
C3_Witness ==
    \E r \in Reqs :
        /\ req[r].pc = "failed" /\ req[r].failed_at = "planets"
        /\ "Neptune" \in DOMAIN req[r].planets_out
        /\ Len(req[r].doc) = 0

\* C4: the exact lookup comes first and its zone, when it gives one, is the
\* result; the nearest lookup is consulted exactly when the exact one gave
\* nothing; the 422 is raised exactly when both gave nothing.
C4_TimezoneFallback ==
    \A r \in Reqs :
        LET q == req[r]
            exactName   == q.tz_exact \notin (Nothing \cup {"uncalled", "raise"})
            closestName == q.tz_closest \notin (Nothing \cup {"uncalled", "raise"})
        IN  /\ q.tz_closest # "uncalled" => q.tz_exact \in Nothing
            /\ q.tz_exact \in Nothing =>
                 (q.pc = "timezone_closest" \/ q.tz_closest # "uncalled")
            /\ exactName =>
                 /\ q.tz_name = q.tz_exact /\ q.tz_closest = "uncalled"
                 /\ q.failed_at # "timezone"
            /\ closestName =>
                 q.tz_name = q.tz_closest /\ q.failed_at # "timezone"
            /\ (q.failed_at = "timezone" /\ q.status = 422) <=>
                 (q.tz_exact \in Nothing /\ q.tz_closest \in Nothing)
            /\ q.failed_at = "timezone" => q.status \in {422, 500}

\* both lookups gave nothing, one an empty string and the other None
C4_Witness ==
    \E r \in Reqs :
        /\ req[r].failed_at = "timezone" /\ req[r].status = 422
        /\ req[r].tz_exact = "" /\ req[r].tz_closest = "None"

\* C5: for 0 <= p < 30, round_to_arcminute(p) lies in [0,29] x [0,59], and
\* a position within half an arcminute of 30 gives the clamped (29, 59).
C5_RoundToArcminuteInRange ==
    (fmt.pc = "done" /\ fmt.kind = "round"
        /\ fmt.arg >= 0 /\ fmt.arg < SignWidth) =>
      /\ fmt.out[1] \in 0..29
      /\ fmt.out[2] \in 0..59
      /\ (2 * 60 * (fmt.arg - 29 * Unit) >= 119 * Unit) => fmt.out = <<29, 59>>
      /\ fmt.arg = SignWidth - 1 => fmt.out = <<29, 59>>

\* the last position of the grid below 30 degrees was rounded
C5_Witness ==
    /\ fmt.pc = "done" /\ fmt.kind = "round"
    /\ fmt.arg = SignWidth - 1 /\ fmt.out = <<29, 59>>

\* C6: for L in [0,360) the sign is SIGNS[floor(L/30)] and the position is
\* L - 30*floor(L/30), in [0,30); for every L, L + 360 gives the same.
C6_ZodiacSignAndPos ==
    (fmt.pc = "done" /\ fmt.kind = "zodiac") =>
      /\ (fmt.arg >= 0 /\ fmt.arg < Turn) =>
           /\ fmt.out.sign = SIGNS[(fmt.arg \div SignWidth) + 1]
           /\ fmt.out.pos = fmt.arg - SignWidth * (fmt.arg \div SignWidth)
           /\ fmt.out.pos >= 0 /\ fmt.out.pos < SignWidth
      /\ zodiac_sign_and_pos(fl(fmt.arg + Turn)) = fmt.out

\* what does hold of zodiac_sign_and_pos: the sign and position of every
\* float in [0,360), and the period of 360 wherever the sum L + 360 is
\* itself a float
ZodiacWhereSumIsExact ==
    (fmt.pc = "done" /\ fmt.kind = "zodiac") =>
      /\ (fmt.arg >= 0 /\ fmt.arg < Turn) =>
           /\ fmt.out.sign = SIGNS[(fmt.arg \div SignWidth) + 1]
           /\ fmt.out.pos = fmt.arg - SignWidth * (fmt.arg \div SignWidth)
           /\ fmt.out.pos >= 0 /\ fmt.out.pos < SignWidth
      /\ fl(fmt.arg + Turn) = fmt.arg + Turn =>
           zodiac_sign_and_pos(fmt.arg + Turn) = fmt.out

\* C7: the house is the floor of the raw house position clamped into 1..12.
C7_HouseInOneToTwelve ==
    (fmt.pc = "done" /\ fmt.kind = "house") =>
      /\ fmt.out \in 1..12
      /\ fmt.arg < Unit => fmt.out = 1
      /\ fmt.arg >= 13 * Unit => fmt.out = 12
      /\ (fmt.arg >= Unit /\ fmt.arg < 13 * Unit) =>
           (fmt.out * Unit <= fmt.arg /\ fmt.arg < (fmt.out + 1) * Unit)
      /\ fmt.arg = (66 * Unit) \div 5 => fmt.out = 12
      /\ fmt.arg = Unit \div 2 => fmt.out = 1

\* the raw position 13.2
C7_Witness ==
    /\ fmt.pc = "done" /\ fmt.kind = "house"
    /\ fmt.arg = (66 * Unit) \div 5 /\ fmt.out = 12

\* C8: a chart has 12 house cusps, numbered 1..12 in order, each with a
\* sign of SIGNS, entry i carrying the library's cusp of house i, whether
\* the library returned 12 cusps or 13 values.
C8_TwelveCuspsInOrder ==
    \A r \in Reqs :
        ChartDone(r) =>
          LET q  == req[r]
              hc == q.doc[1].house_cusps
          IN  /\ Len(hc) = 12
              /\ \A n \in 1..Len(hc) :
                    /\ hc[n].house = n
                    /\ \E s \in 1..12 : hc[n].sign = SIGNS[s]
                    /\ n <= 12 =>
                         hc[n].lon_deg =
                           CuspOf(lib.table, q.jd_ut, q.lat, q.lon, n)

\* a chart made with the binding that returns 13 values
C8_Witness ==
    \E r \in Reqs : ChartDone(r) /\ lib.cusps = 13 /\ Len(req[r].houses) = 13

TrackedBodies ==
    {"Sun", "Moon", "Mercury", "Venus", "Mars", "Jupiter", "Saturn",
     "Uranus", "Neptune", "Pluto", "Node(M)"}

\* C9: a chart's planets are exactly the 11 tracked bodies, and a body is
\* retrograde exactly when the speed the ephemeris gave for it is negative.
C9_ElevenBodiesRetrogradeBySpeed ==
    \A r \in Reqs :
        ChartDone(r) =>
          LET q  == req[r]
              pl == q.doc[1].planets
          IN  /\ DOMAIN pl = TrackedBodies
              /\ Cardinality(DOMAIN pl) = 11
              /\ \A n \in 1..Len(PLANETS) :
                    pl[PLANETS[n].name].retrograde <=>
                      (calc_ut_speed(lib.table, q.jd_ut, PLANETS[n].body) < 0)

\* a chart with a retrograde body and a stationary one
C9_Witness ==
    \E r \in Reqs :
        /\ ChartDone(r)
        /\ \E n \in 1..Len(PLANETS) :
              /\ calc_ut_speed(lib.table, req[r].jd_ut, PLANETS[n].body) = 0
              /\ ~req[r].doc[1].planets[PLANETS[n].name].retrograde
        /\ \E n \in 1..Len(PLANETS) :
              req[r].doc[1].planets[PLANETS[n].name].retrograde

\* what a request was given: its input and the services' answers to it
Given(q) ==
    <<q.route, q.input, q.primary, q.fallback, q.tz_exact, q.tz_closest,
      q.zoneinfo, q.houses_call>>

\* C10: no step of a request writes the process-wide state or another
\* request's state, and two finished requests that were given the same
\* input and the same answers have the same result.
C10_RequestsShareNoMutableState ==
    /\ [][ /\ config' = config
           /\ lib' = lib
           /\ \A r1, r2 \in Reqs :
                 (req'[r1] # req[r1] /\ req'[r2] # req[r2]) => r1 = r2 ]_vars
    /\ [](\A r1, r2 \in Reqs :
             (req[r1].pc \in {"done", "failed"} /\ req[r2].pc \in {"done", "failed"}
                /\ Given(req[r1]) = Given(req[r2])) =>
               ( req[r1].status = req[r2].status /\ req[r1].doc = req[r2].doc ))

\* two charts finished side by side
C10_Witness ==
    /\ \A r \in Reqs : ChartDone(r)
    /\ config = StartupConfig

=============================================================================
